---- MODULE Spec2Model ----
(***************************************************************************)
(* Model of Lib/multiprocessing/util.py: the finalizer registry (Finalize, *)
(* _run_finalizers), the after-fork registry, the exit function and the    *)
(* memoized temp directory.                                                *)
(*                                                                         *)
(* Threads interleave between the steps of a function.  One step is one    *)
(* operation that CPython performs atomically on a dict or a global (del,  *)
(* get, list(d), clear, a load or a store); a user callback is two steps   *)
(* (it starts, it returns or raises), so other threads run during it.      *)
(* Each thread owns a stack of frames; the top frame is the running one.   *)
(***************************************************************************)
EXTENDS Integers, Sequences, FiniteSets, TLC

\* ---------------------------------------------------------------- bounds
MaxRacing == 1         \* Finalize objects constructed while two threads race
MaxFin == 2            \* Finalize objects constructed by a single thread
MaxChildren == 2       \* child processes known to the process registry
MaxForkers == 2        \* register_after_fork calls
MaxDirs == 2           \* temp directories mkdtemp may create

Threads == {"t1", "t2"}

\* the process that imports the module, and a child it forks
ParentPid == 1
ChildPid == 2

\* ------------------------------------------------------ optional integers
None == [none |-> TRUE, v |-> 0]
Some(v) == [none |-> FALSE, v |-> v]

TempDirPriority == -100
PrioValues == {TempDirPriority, 0}
OptPrio == {None} \cup {Some(v) : v \in PrioValues}

\* self._key = None
KeyNone == <<>>

VARIABLES
    registry,      \* _finalizer_registry: key -> index of the Finalize object
    counter,       \* next value of _finalizer_counter
    fin,           \* the Finalize objects, by index of construction
    pid,           \* os.getpid()
    cap,           \* number of Finalize objects the run may construct
    globalsGone,   \* the module's globals are destroyed: _finalizer_registry is None
    th,            \* per thread: stack of frames
    calls,         \* per Finalize object: times its callback was started
    foreignCall,   \* a callback was started in another process than its own
    removals,      \* per Finalize object: times its key was removed
    dropped,       \* Finalize objects whose key a full-run clear() removed
    exiting,       \* _exiting: "False", "True" or "None"
    exitRuns,      \* times the body of _exit_function was entered
    exitOverlap,   \* a thread read _exiting as false while another was about to set it
    curproc,       \* process.current_process() is not None
    children,      \* process registry: the children, [daemon, state] each
    afterfork,     \* _afterfork_registry: the keys <<index, id(obj)>> of live objects
    afCounter,     \* next value of _afterfork_counter
    tempdir,       \* current_process()._config['tempdir'] (0 is None)
    tempOverlap,   \* a thread read tempdir as None while another was about to store it
    dirsMade,      \* number of directories mkdtemp has created
    dirsRemoved    \* directories rmtree has removed

vars == <<registry, counter, fin, pid, cap, globalsGone, th, calls, foreignCall,
          removals, dropped, exiting, exitRuns, exitOverlap, curproc,
          children, afterfork, afCounter, tempdir, tempOverlap, dirsMade,
          dirsRemoved>>

finVars == <<registry, counter, fin, calls, foreignCall, removals, dropped>>
exitVars == <<exiting, exitRuns, exitOverlap, curproc, children>>
forkVars == <<afterfork, afCounter>>
tempVars == <<tempdir, tempOverlap, dirsMade, dirsRemoved>>

\* ------------------------------------------------------------------ keys
\* Python's tuple order on (exitpriority, sequence), both integers
KeyLess(a, b) == \/ a[1].v < b[1].v
                 \/ a[1].v = b[1].v /\ a[2] < b[2]

MaxKey(S) == CHOOSE k \in S : \A j \in S : j = k \/ KeyLess(j, k)

RECURSIVE SortDesc(_)
SortDesc(S) == IF S = {} THEN <<>>
               ELSE LET m == MaxKey(S) IN <<m>> \o SortDesc(S \ {m})

RECURSIVE SortAsc(_)
SortAsc(S) == IF S = {} THEN <<>>
              ELSE LET m == MaxKey(S) IN SortAsc(S \ {m}) \o <<m>>

\* ---------------------------------------------------------------- frames
\* fn/pc: the function and the place in it; h: the Finalize object at hand (in
\* an exit function, the number of children there were when it listed them);
\* minp, keys: minpriority and the keys still to visit; inv, skip, caught: the
\* keys whose finalizer the run called, the number it found removed, the number
\* of exceptions it caught; evs: what an exit function has done so far.
\* A top-level call that finished stays as one frame at pc "done", with its
\* outcome out ("None", "res", "exc" or "ValueError"), the keys it had left to
\* visit and, for a call on one Finalize object, that object (for get_temp_dir,
\* the directory returned), until its caller goes on.
Frame(fn, pc) == [fn |-> fn, pc |-> pc, h |-> 0, minp |-> None, keys |-> <<>>,
                  inv |-> <<>>, skip |-> 0, caught |-> 0, evs |-> <<>>,
                  out |-> "-"]

Idle(t) == th[t] = <<>>
Top(t) == th[t][Len(th[t])]
At(t, fn, pc) == /\ th[t] # <<>>
                 /\ Top(t).fn = fn
                 /\ Top(t).pc = pc

Push(st, f) == Append(st, f)
Pop(st) == SubSeq(st, 1, Len(st) - 1)
SetTop(st, f) == [st EXCEPT ![Len(st)] = f]

Cap(n) == IF n < 2 THEN n + 1 ELSE n

CatchesNothing(out) == FALSE
\* lines 366-370: try: finalizer() except Exception; the outcome "exc" of a
\* callback is an exception that is an instance of Exception
Catches(out) == out = "exc"

\* what the caller of a top-level call f keeps once it finished with outcome out
Done(f, out) == [Frame(f.fn, "done") EXCEPT
                    !.out = out,
                    !.keys = f.keys,
                    !.inv = IF f.fn = "afterfork" THEN f.inv ELSE <<>>,
                    !.evs = IF f.fn = "afterfork" THEN f.evs ELSE <<>>,
                    !.caught = IF f.fn = "afterfork" THEN f.caught ELSE 0,
                    !.h = IF f.fn \in {"call", "cancel", "gettemp"} THEN f.h ELSE 0]

\* Ended(st, out): the stack once the frame on top of st has finished with
\* outcome out.  Resumed(st, out): the stack once the frame on top of st, a
\* caller, has got outcome out from its call (an exception it does not catch
\* ends it too).
RECURSIVE Ended(_, _)
RECURSIVE Resumed(_, _)
Resumed(st, out) ==
    LET c == st[Len(st)] IN
    IF c.fn = "runfin" /\ c.pc = "calling"
    THEN IF out # "exc" \/ Catches(out)
         THEN SetTop(st, [c EXCEPT !.pc = "loop",
                                   !.caught = IF out = "exc" THEN @ + 1 ELSE @])
         ELSE Ended(st, "exc")
    ELSE IF c.fn = "exit" /\ c.pc = "pass1" /\ out # "exc"
    THEN SetTop(st, [c EXCEPT !.pc = "proc"])
    ELSE Ended(st, IF out = "exc" THEN "exc" ELSE "None")

Ended(st, out) ==
    IF Len(st) = 1
    THEN <<Done(st[1], out)>>
    ELSE Resumed(Pop(st), out)

Finish(t, st, out) == th' = [th EXCEPT ![t] = Ended(st, out)]

\* the caller of a finished top-level call goes on
Return(t) ==
    /\ th[t] # <<>>
    /\ Top(t).pc = "done"
    /\ th' = [th EXCEPT ![t] = <<>>]
    /\ UNCHANGED <<registry, counter, fin, pid, cap, globalsGone, calls, foreignCall, removals,
                   dropped, exiting, exitRuns, exitOverlap, curproc, children,
                   afterfork, afCounter, tempdir, tempOverlap, dirsMade,
                   dirsRemoved>>

\* ------------------------------------------------------------- Finalize
AllHandles == 1 .. MaxFin + MaxRacing
Handles == 1 .. Len(fin)

RegisterFailsNever(hasObj, p) == FALSE
\* lines 259-262: without object, exitpriority cannot be None
RegisterFails(hasObj, p) == ~hasObj /\ p.none

\* lines 259-268; weakref is "none" (no object, or cleared), "live" or "dead"
NewFinalize(hasObj, p, kind, args) ==
    [key |-> <<p, counter>>, pid |-> pid,
     weakref |-> IF hasObj THEN "live" ELSE "none",
     callback |-> kind, args |-> args]

ClearedKeyOnly(f) == [f EXCEPT !.key = KeyNone]
\* lines 292-293 and 305-306
Cleared(f) == [f EXCEPT !.key = KeyNone, !.weakref = "none",
                         !.callback = "none", !.args = 0]

\* Finalize.__init__ once its arguments are accepted
Construct(hasObj, p, kind, args) ==
    LET f == NewFinalize(hasObj, p, kind, args) IN
    /\ fin' = Append(fin, f)
    /\ counter' = counter + 1
    /\ registry' = [k \in DOMAIN registry \cup {f.key} |->
                        IF k = f.key THEN Len(fin) + 1 ELSE registry[k]]

Register(t, hasObj, p) ==
    /\ Idle(t)
    /\ counter < cap
    /\ IF RegisterFails(hasObj, p)
       THEN /\ Finish(t, <<Frame("init", "raise")>>, "ValueError")
            /\ UNCHANGED <<registry, counter, fin>>
       ELSE /\ Construct(hasObj, p, "user", 0)
            /\ Finish(t, <<[Frame("init", "insert") EXCEPT !.h = Len(fin) + 1]>>, "None")
    /\ UNCHANGED <<pid, cap, globalsGone, calls, foreignCall, removals, dropped,
                   exitVars, forkVars, tempVars>>

Without(reg, k) == [j \in DOMAIN reg \ {k} |-> reg[j]]

DelKeyKeeps(reg, k) == reg
\* del _finalizer_registry[key], the key being present
DelKey(reg, k) == Without(reg, k)

SamePidAlways(f) == TRUE
\* line 285: self._pid != getpid()
SamePid(f) == f.pid = pid

\* lines 280-291 of Finalize.__call__ on h, st being the caller's stack and f0
\* the Finalize objects as the call finds them: the del (or KeyError), the pid
\* check, and the callback begins
Call(t, st, h, f0) ==
    LET k == f0[h].key IN
    IF k \notin DOMAIN registry
    THEN /\ Finish(t, Push(st, [Frame("call", "del") EXCEPT !.h = h]), "None")
         /\ fin' = f0
         /\ UNCHANGED <<registry, counter, calls, foreignCall, removals, dropped>>
    ELSE /\ registry' = DelKey(registry, k)
         /\ removals' = [removals EXCEPT ![h] = Cap(@)]
         /\ IF ~SamePid(f0[h])
            THEN /\ fin' = [f0 EXCEPT ![h] = Cleared(@)]
                 /\ Finish(t, Push(st, [Frame("call", "del") EXCEPT !.h = h]), "None")
                 /\ UNCHANGED <<calls, foreignCall>>
            ELSE /\ calls' = [calls EXCEPT ![h] = Cap(@)]
                 /\ foreignCall' = (foreignCall \/ f0[h].pid # pid)
                 /\ th' = [th EXCEPT ![t] =
                        Push(st, [Frame("call", "running") EXCEPT !.h = h])]
                 /\ fin' = f0
         /\ UNCHANGED <<counter, dropped>>

\* finalizer() called through the handle
Invoke(t, h) ==
    /\ Idle(t)
    /\ h \in Handles
    /\ Call(t, <<>>, h, fin)
    /\ UNCHANGED <<pid, cap, globalsGone, exitVars, forkVars, tempVars>>

CollectNothing(t, h) ==
    /\ Idle(t)
    /\ h \in Handles
    /\ fin[h].weakref = "live"
    /\ fin' = [fin EXCEPT ![h].weakref = "dead"]
    /\ Finish(t, <<[Frame("call", "del") EXCEPT !.h = h]>>, "None")
    /\ UNCHANGED <<registry, counter, calls, foreignCall, removals, dropped,
                   pid, cap, globalsGone, exitVars, forkVars, tempVars>>

\* the watched object is collected: weakref.ref(obj, self) calls self(wr)
Collect(t, h) ==
    /\ Idle(t)
    /\ h \in Handles
    /\ fin[h].weakref = "live"
    /\ Call(t, <<>>, h, [fin EXCEPT ![h].weakref = "dead"])
    /\ UNCHANGED <<pid, cap, globalsGone, exitVars, forkVars, tempVars>>

RemoveTempDirKeepsMemo(h) ==
    IF fin[h].callback = "rmtemp"
    THEN /\ dirsRemoved' = dirsRemoved \cup {fin[h].args}
         /\ UNCHANGED <<tempdir, dirsMade, tempOverlap>>
    ELSE UNCHANGED tempVars
\* lines 144-151: _remove_temp_dir(rmtree, tempdir), the callback that
\* get_temp_dir registers
RemoveTempDir(h) ==
    IF fin[h].callback = "rmtemp"
    THEN /\ dirsRemoved' = dirsRemoved \cup {fin[h].args}
         /\ tempdir' = IF curproc THEN 0 ELSE tempdir
         /\ UNCHANGED <<dirsMade, tempOverlap>>
    ELSE UNCHANGED tempVars

\* lines 291-294: the callback returns; the fields are cleared
CallbackReturn(t) ==
    /\ At(t, "call", "running")
    /\ LET h == Top(t).h IN
       /\ RemoveTempDir(h)
       /\ fin' = [fin EXCEPT ![h] = Cleared(@)]
       /\ Finish(t, th[t], "res")
    /\ UNCHANGED <<registry, counter, calls, foreignCall, removals,
                   dropped, pid, cap, globalsGone, exitVars, forkVars>>

CallbackRaiseSwallowed(t) ==
    /\ At(t, "call", "running")
    /\ Finish(t, th[t], "None")
    /\ UNCHANGED <<finVars, pid, cap, globalsGone, exitVars, forkVars, tempVars>>

\* line 291: the callback raises; lines 292-294 are not reached
CallbackRaise(t) ==
    /\ At(t, "call", "running")
    /\ Finish(t, th[t], "exc")
    /\ UNCHANGED <<finVars, pid, cap, globalsGone, exitVars, forkVars, tempVars>>

CancelKeeps(t, h) ==
    /\ Idle(t)
    /\ h \in Handles
    /\ Finish(t, <<[Frame("cancel", "del") EXCEPT !.h = h]>>, "None")
    /\ UNCHANGED <<finVars, pid, cap, globalsGone, exitVars, forkVars, tempVars>>

\* lines 296-306: Finalize.cancel
Cancel(t, h) ==
    /\ Idle(t)
    /\ h \in Handles
    /\ LET k == fin[h].key IN
       IF k \in DOMAIN registry
       THEN /\ registry' = DelKey(registry, k)
            /\ removals' = [removals EXCEPT ![h] = Cap(@)]
            /\ fin' = [fin EXCEPT ![h] = Cleared(@)]
       ELSE UNCHANGED <<registry, removals, fin>>
    /\ Finish(t, <<[Frame("cancel", "del") EXCEPT !.h = h]>>, "None")
    /\ UNCHANGED <<counter, calls, foreignCall, dropped, pid, cap, globalsGone,
                   exitVars, forkVars, tempVars>>

\* --------------------------------------------------------- _run_finalizers
MinPriorities == {None, Some(0)}

SelectedAny(k, m) == ~k[1].none
\* lines 348-351: the filter f
Selected(k, m) == /\ ~k[1].none
                  /\ (m.none \/ k[1].v >= m.v)

SortedKeysAscending(reg, m) == SortAsc({k \in DOMAIN reg : Selected(k, m)})
\* lines 358-359: the selected keys, keys.sort(reverse=True)
SortedKeys(reg, m) == SortDesc({k \in DOMAIN reg : Selected(k, m)})

\* lines 342-359: the frame of _run_finalizers(m) once the keys are listed;
\* when _finalizer_registry is None the function returns at once (line 346)
RunFrame(m) == [Frame("runfin", "loop") EXCEPT
                   !.minp = m,
                   !.keys = IF globalsGone THEN <<>> ELSE SortedKeys(registry, m)]

RunFinalizers(t, m) ==
    /\ Idle(t)
    /\ th' = [th EXCEPT ![t] = <<RunFrame(m)>>]
    /\ UNCHANGED <<finVars, pid, cap, globalsGone, exitVars, forkVars, tempVars>>

\* st with the event e noted in its exit function's frame, if it has one
NoteExit(st, e) ==
    IF st # <<>> /\ st[1].fn = "exit"
    THEN [st EXCEPT ![1] = [@ EXCEPT !.evs = Append(@, e)]]
    ELSE st

\* which call of _run_finalizers an exit function is in: 1 or 2
Pass(st) == IF st # <<>> /\ st[1].fn = "exit" /\ st[1].pc = "pass1" THEN 1 ELSE 2

RunGetRaises(t) ==
    /\ At(t, "runfin", "loop")
    /\ Top(t).keys # <<>>
    /\ LET f == Top(t)
           k == Head(f.keys) IN
       IF k \in DOMAIN registry
       THEN th' = [th EXCEPT ![t] =
                     SetTop(@, [f EXCEPT !.pc = "got", !.keys = Tail(@),
                                         !.h = registry[k],
                                         !.inv = Append(@, k)])]
       ELSE Finish(t, th[t], "exc")
    /\ UNCHANGED <<finVars, pid, cap, globalsGone, exitVars, forkVars, tempVars>>

\* lines 361-364: finalizer = _finalizer_registry.get(key)
RunGet(t) ==
    /\ At(t, "runfin", "loop")
    /\ Top(t).keys # <<>>
    /\ LET f == Top(t)
           k == Head(f.keys) IN
       th' = [th EXCEPT ![t] =
                IF k \in DOMAIN registry
                THEN SetTop(@, [f EXCEPT !.pc = "got", !.keys = Tail(@),
                                         !.h = registry[k],
                                         !.inv = Append(@, k)])
                ELSE SetTop(@, [f EXCEPT !.keys = Tail(@), !.skip = @ + 1])]
    /\ UNCHANGED <<finVars, pid, cap, globalsGone, exitVars, forkVars, tempVars>>

\* lines 365-367: finalizer()
RunCall(t) ==
    /\ At(t, "runfin", "got")
    /\ LET f == Top(t) IN
       Call(t, NoteExit(SetTop(th[t], [f EXCEPT !.pc = "calling"]),
                        <<"fin", f.inv[Len(f.inv)][1].v, Pass(th[t]),
                          fin[f.h].callback, fin[f.h].args>>),
            f.h, fin)
    /\ UNCHANGED <<pid, cap, globalsGone, exitVars, forkVars, tempVars>>

ClearsNever(m) == FALSE
\* line 372: if minpriority is None
ClearsAll(m) == m.none

RunEndRelists(t) ==
    /\ At(t, "runfin", "loop")
    /\ Top(t).keys = <<>>
    /\ IF SortedKeys(registry, Top(t).minp) # <<>>
       THEN /\ th' = [th EXCEPT ![t] = SetTop(@, [Top(t) EXCEPT
                        !.keys = SortedKeys(registry, Top(t).minp)])]
            /\ UNCHANGED <<registry, dropped, removals>>
       ELSE /\ registry' = << >>
            /\ dropped' = dropped \cup {registry[k] : k \in DOMAIN registry}
            /\ removals' = [h \in DOMAIN removals |->
                              IF \E k \in DOMAIN registry : registry[k] = h
                              THEN Cap(removals[h]) ELSE removals[h]]
            /\ Finish(t, th[t], "None")
    /\ UNCHANGED <<counter, fin, calls, foreignCall, pid, cap, globalsGone,
                   exitVars, forkVars, tempVars>>

\* lines 372-373: after the loop
RunEnd(t) ==
    /\ At(t, "runfin", "loop")
    /\ Top(t).keys = <<>>
    /\ IF ClearsAll(Top(t).minp) /\ ~globalsGone
       THEN /\ registry' = << >>
            /\ dropped' = dropped \cup {registry[k] : k \in DOMAIN registry}
            /\ removals' = [h \in DOMAIN removals |->
                              IF \E k \in DOMAIN registry : registry[k] = h
                              THEN Cap(removals[h]) ELSE removals[h]]
       ELSE UNCHANGED <<registry, dropped, removals>>
    /\ Finish(t, th[t], "None")
    /\ UNCHANGED <<counter, fin, calls, foreignCall, pid, cap, globalsGone,
                   exitVars, forkVars, tempVars>>

\* ----------------------------------------------------------- _exit_function
\* process.active_children(): the children that have not exited
Active == {c \in DOMAIN children : children[c].state \in {"active", "terminated"}}

RECURSIVE Listed(_)
Listed(S) == IF S = {} THEN <<>>
             ELSE LET c == CHOOSE x \in S : \A y \in S : x <= y
                  IN <<c>> \o Listed(S \ {c})

\* Process.start() of a child, daemon or not
Spawn(d) ==
    /\ Len(children) < MaxChildren
    /\ children' = Append(children, [daemon |-> d, state |-> "active"])
    /\ UNCHANGED <<finVars, pid, cap, globalsGone, th, exiting, exitRuns, exitOverlap,
                   curproc, forkVars, tempVars>>

\* a child exits by itself
ChildExits(c) ==
    /\ c \in Active
    /\ children' = [children EXCEPT ![c].state = "exited"]
    /\ UNCHANGED <<finVars, pid, cap, globalsGone, th, exiting, exitRuns, exitOverlap,
                   curproc, forkVars, tempVars>>

\* the globals of this module are destroyed: each value of the module dict is
\* replaced by None, _finalizer_registry and _exiting among them (the dict
\* that was the registry lives on in the defaults of Finalize.__call__); taken
\* while no thread is inside a function of the module
ModuleGone ==
    /\ ~globalsGone
    /\ \A t \in Threads : Idle(t)
    /\ globalsGone' = TRUE
    /\ exiting' = "None"
    /\ UNCHANGED <<finVars, pid, cap, th, exitRuns, exitOverlap, curproc,
                   children, forkVars, tempVars>>

\* lines 379-383: is_exiting() returns _exiting or _exiting is None
IsExitingTrueOnly(e) == e = "True"
IsExiting(e) == e = "True" \/ e = "None"

\* the process module is torn down: current_process() is None from now on
ProcessGone ==
    /\ curproc
    /\ curproc' = FALSE
    /\ UNCHANGED <<finVars, pid, cap, globalsGone, th, exiting, exitRuns, exitOverlap,
                   children, forkVars, tempVars>>

ReadsNotExitingAlways(e) == TRUE
\* line 396: if not _exiting
ReadsNotExiting(e) == e # "True"

\* line 396: the flag is read
Exit(t) ==
    /\ Idle(t)
    /\ IF ReadsNotExiting(exiting)
       THEN /\ th' = [th EXCEPT ![t] = <<Frame("exit", "set")>>]
            /\ exitOverlap' = (exitOverlap \/ \E u \in Threads : At(u, "exit", "set"))
       ELSE /\ Finish(t, <<Frame("exit", "read")>>, "None")
            /\ UNCHANGED exitOverlap
    /\ UNCHANGED <<finVars, pid, cap, globalsGone, exiting, exitRuns, curproc, children,
                   forkVars, tempVars>>

\* line 397: _exiting = True
ExitSet(t) ==
    /\ At(t, "exit", "set")
    /\ exiting' = "True"
    /\ exitRuns' = Cap(exitRuns)
    /\ th' = [th EXCEPT ![t] = SetTop(@, [Top(t) EXCEPT !.pc = "first"])]
    /\ UNCHANGED <<finVars, pid, cap, globalsGone, exitOverlap, curproc, children,
                   forkVars, tempVars>>

FirstPassAll == None
\* line 401: _run_finalizers(0)
FirstPassMin == Some(0)

ExitFirstPass(t) ==
    /\ At(t, "exit", "first")
    /\ th' = [th EXCEPT ![t] =
                Push(SetTop(@, [Top(t) EXCEPT !.pc = "pass1"]), RunFrame(FirstPassMin))]
    /\ UNCHANGED <<finVars, pid, cap, globalsGone, exitVars, forkVars, tempVars>>

ExitProcAlways(t) ==
    /\ At(t, "exit", "proc")
    /\ th' = [th EXCEPT ![t] = SetTop(@,
                [Top(t) EXCEPT !.pc = "term", !.keys = Listed(Active),
                               !.h = Len(children)])]
    /\ UNCHANGED <<finVars, pid, cap, globalsGone, exiting, exitRuns, exitOverlap,
                   curproc, children, forkVars, tempVars>>

\* lines 403-417: current_process() is checked, active_children() is listed
ExitProc(t) ==
    /\ At(t, "exit", "proc")
    /\ th' = [th EXCEPT ![t] = SetTop(@,
                IF curproc
                THEN [Top(t) EXCEPT !.pc = "term", !.keys = Listed(Active),
                                     !.h = Len(children)]
                ELSE [Top(t) EXCEPT !.pc = "second"])]
    /\ UNCHANGED <<finVars, pid, cap, globalsGone, exitVars, forkVars, tempVars>>

\* lines 417-422: one child of the first loop, or the second active_children()
ExitTerminate(t) ==
    /\ At(t, "exit", "term")
    /\ LET f == Top(t) IN
       IF f.keys = <<>>
       THEN /\ th' = [th EXCEPT ![t] = SetTop(@, [f EXCEPT !.pc = "join",
                                                          !.keys = Listed(Active)])]
            /\ UNCHANGED children
       ELSE LET c == Head(f.keys) IN
            IF children[c].daemon
            THEN /\ children' = [children EXCEPT ![c].state =
                                    IF @ = "active" THEN "terminated" ELSE @]
                 /\ th' = [th EXCEPT ![t] = SetTop(@, [f EXCEPT
                              !.keys = Tail(@), !.evs = Append(@, <<"term", c, 0>>)])]
            ELSE /\ th' = [th EXCEPT ![t] = SetTop(@, [f EXCEPT !.keys = Tail(@)])]
                 /\ UNCHANGED children
    /\ UNCHANGED <<finVars, pid, cap, globalsGone, exiting, exitRuns, exitOverlap, curproc,
                   forkVars, tempVars>>

\* lines 422-424: p.join() of one child of the second loop; it returns once the
\* child has exited
ExitJoin(t) ==
    /\ At(t, "exit", "join")
    /\ LET f == Top(t) IN
       IF f.keys = <<>>
       THEN /\ th' = [th EXCEPT ![t] = SetTop(@, [f EXCEPT !.pc = "second"])]
            /\ UNCHANGED children
       ELSE LET c == Head(f.keys) IN
            /\ children' = [children EXCEPT ![c].state = "joined"]
            /\ th' = [th EXCEPT ![t] = SetTop(@, [f EXCEPT
                         !.keys = Tail(@), !.evs = Append(@, <<"join", c, 0>>)])]
    /\ UNCHANGED <<finVars, pid, cap, globalsGone, exiting, exitRuns, exitOverlap, curproc,
                   forkVars, tempVars>>

\* line 427: _run_finalizers()
ExitSecondPass(t) ==
    /\ At(t, "exit", "second")
    /\ th' = [th EXCEPT ![t] =
                Push(SetTop(@, [Top(t) EXCEPT !.pc = "pass2"]), RunFrame(None))]
    /\ UNCHANGED <<finVars, pid, cap, globalsGone, exitVars, forkVars, tempVars>>

\* ------------------------------------------------------------ get_temp_dir
MemoNever(d) == FALSE
\* line 210: if tempdir is None
Memoized(d) == d # 0

InTempDir(u) == \E f \in {th[u][i] : i \in DOMAIN th[u]} :
                    f.fn = "gettemp" /\ f.pc # "done"

\* lines 209-210: the memoized path is read
GetTempDir(t) ==
    /\ Idle(t)
    /\ IF Memoized(tempdir)
       THEN /\ Finish(t, <<[Frame("gettemp", "read") EXCEPT !.h = tempdir]>>, "res")
            /\ UNCHANGED tempOverlap
       ELSE /\ dirsMade < MaxDirs
            /\ th' = [th EXCEPT ![t] = <<Frame("gettemp", "make")>>]
            /\ tempOverlap' = (tempOverlap \/ \E u \in Threads : InTempDir(u))
    /\ UNCHANGED <<finVars, pid, cap, globalsGone, exitVars, forkVars, tempdir, dirsMade,
                   dirsRemoved>>

\* lines 211-214: tempfile.mkdtemp makes a directory no one else has
TempMake(t) ==
    /\ At(t, "gettemp", "make")
    /\ dirsMade' = dirsMade + 1
    /\ th' = [th EXCEPT ![t] = SetTop(@, [Top(t) EXCEPT !.pc = "register",
                                                        !.h = dirsMade + 1])]
    /\ UNCHANGED <<finVars, pid, cap, globalsGone, exitVars, forkVars, tempdir, tempOverlap,
                   dirsRemoved>>

\* lines 217-218: Finalize(None, _remove_temp_dir, ..., exitpriority=-100)
TempRegister(t) ==
    /\ At(t, "gettemp", "register")
    /\ Construct(FALSE, Some(TempDirPriority), "rmtemp", Top(t).h)
    /\ th' = [th EXCEPT ![t] = SetTop(@, [Top(t) EXCEPT !.pc = "store"])]
    /\ UNCHANGED <<pid, cap, globalsGone, calls, foreignCall, removals, dropped,
                   exitVars, forkVars, tempVars>>

\* lines 219-220: the path is memoized and returned
TempStore(t) ==
    /\ At(t, "gettemp", "store")
    /\ tempdir' = Top(t).h
    /\ Finish(t, th[t], "res")
    /\ UNCHANGED <<finVars, pid, cap, globalsGone, exitVars, forkVars, tempOverlap, dirsMade,
                   dirsRemoved>>

\* ------------------------------------------------------- after-fork registry
\* Python's tuple order on (index, id(obj))
ForkerLess(a, b) == \/ a[1] < b[1]
                    \/ a[1] = b[1] /\ a[2] < b[2]

ForkerLessById(a, b) == \/ a[2] < b[2]
                        \/ a[2] = b[2] /\ a[1] < b[1]

RECURSIVE SortedForkersById(_)
SortedForkersById(S) ==
    IF S = {} THEN <<>>
    ELSE LET m == CHOOSE k \in S : \A j \in S : j = k \/ ForkerLessById(k, j)
         IN <<m>> \o SortedForkersById(S \ {m})

\* lines 230-231: items.sort()
RECURSIVE SortedForkers(_)
SortedForkers(S) ==
    IF S = {} THEN <<>>
    ELSE LET m == CHOOSE k \in S : \A j \in S : j = k \/ ForkerLess(k, j)
         IN <<m>> \o SortedForkers(S \ {m})

Idents == {1, 2}

\* lines 238-239: register_after_fork(obj, func); ident is id(obj)
RegisterAfterFork(t, ident) ==
    /\ Idle(t)
    /\ afCounter < MaxForkers
    /\ afterfork' = afterfork \cup {<<afCounter, ident>>}
    /\ afCounter' = afCounter + 1
    /\ UNCHANGED <<finVars, pid, cap, globalsGone, th, exitVars, tempVars>>

\* the items a running _run_after_forkers holds, and so keeps alive
Held == UNION {{f.inv[i] : i \in DOMAIN f.inv} \cup {f.keys[i] : i \in DOMAIN f.keys} :
               f \in {g \in UNION {{th[t][i] : i \in DOMAIN th[t]} : t \in Threads} :
                         g.fn = "afterfork" /\ g.pc # "done"}}

\* an object is collected: the WeakValueDictionary drops its entry
ForkerCollected(k) ==
    /\ k \in afterfork
    /\ k \notin Held
    /\ afterfork' = afterfork \ {k}
    /\ UNCHANGED <<finVars, pid, cap, globalsGone, th, exitVars, afCounter, tempVars>>

\* lines 230-231: the items are listed and sorted; evs keeps the set listed
RunAfterForkers(t) ==
    /\ Idle(t)
    /\ th' = [th EXCEPT ![t] = <<[Frame("afterfork", "loop") EXCEPT
                 !.keys = SortedForkers(afterfork),
                 !.evs = afterfork]>>]
    /\ UNCHANGED <<finVars, pid, cap, globalsGone, exitVars, forkVars, tempVars>>

\* lines 232-234: func(obj) is called for the next item, or the loop is over
AfterForkCall(t) ==
    /\ At(t, "afterfork", "loop")
    /\ LET f == Top(t) IN
       IF f.keys = <<>>
       THEN Finish(t, th[t], "None")
       ELSE th' = [th EXCEPT ![t] = SetTop(@, [f EXCEPT !.pc = "calling",
                       !.keys = Tail(@), !.inv = Append(@, Head(f.keys))])]
    /\ UNCHANGED <<finVars, pid, cap, globalsGone, exitVars, forkVars, tempVars>>

ForkerCatchesNothing(out) == FALSE
\* lines 233-236: try: func(obj) except Exception
ForkerCatches(out) == out = "exc"

\* lines 234-236: func(obj) returns, or raises
AfterForkReturn(t, out) ==
    /\ At(t, "afterfork", "calling")
    /\ IF out # "exc" \/ ForkerCatches(out)
       THEN th' = [th EXCEPT ![t] = SetTop(@, [Top(t) EXCEPT !.pc = "loop",
                       !.caught = IF out = "exc" THEN @ + 1 ELSE @])]
       ELSE Finish(t, th[t], "exc")
    /\ UNCHANGED <<finVars, pid, cap, globalsGone, exitVars, forkVars, tempVars>>

\* os.fork(), followed into the child: only the forking thread exists there
Fork(t) ==
    /\ Idle(t)
    /\ pid = ParentPid
    /\ pid' = ChildPid
    /\ th' = [u \in Threads |-> <<>>]
    /\ UNCHANGED <<finVars, cap, globalsGone, exitVars, forkVars, tempVars>>

\* ------------------------------------------------------------------ Init
Start(n) ==
    /\ registry = << >>
    /\ counter = 0
    /\ fin = <<>>
    /\ pid = ParentPid
    /\ cap = n
    /\ globalsGone = FALSE
    /\ th = [t \in Threads |-> <<>>]
    /\ calls = [h \in AllHandles |-> 0]
    /\ foreignCall = FALSE
    /\ removals = [h \in AllHandles |-> 0]
    /\ dropped = {}
    /\ exiting = "False"
    /\ exitRuns = 0
    /\ exitOverlap = FALSE
    /\ curproc = TRUE
    /\ children = << >>
    /\ afterfork = {}
    /\ afCounter = 0
    /\ tempdir = 0
    /\ tempOverlap = FALSE
    /\ dirsMade = 0
    /\ dirsRemoved = {}

\* the operations on the finalizer registry, by thread t
Registry(t) ==
    \/ \E o \in BOOLEAN, p \in OptPrio : Register(t, o, p)
    \/ \E h \in AllHandles : Invoke(t, h)
    \/ \E h \in AllHandles : Collect(t, h)
    \/ \E h \in AllHandles : Cancel(t, h)
    \/ \E m \in MinPriorities : RunFinalizers(t, m)
    \/ CallbackReturn(t)
    \/ CallbackRaise(t)
    \/ RunGet(t)
    \/ RunCall(t)
    \/ RunEnd(t)
    \/ Return(t)

\* Spec: two threads race on the finalizer registry
Init == Start(MaxRacing)
Next == \E t \in Threads : Registry(t)
Spec == Init /\ [][Next]_vars

\* SpecSeq: one thread uses the finalizer registry and may fork
Main == "t1"
InitSeq == Start(MaxFin)
NextSeq == Registry(Main) \/ Fork(Main)
SpecSeq == InitSeq /\ [][NextSeq]_vars

\* the steps of _exit_function, by thread t
Shutdown(t) ==
    \/ Exit(t)
    \/ ExitSet(t)
    \/ ExitFirstPass(t)
    \/ ExitProc(t)
    \/ ExitTerminate(t)
    \/ ExitJoin(t)
    \/ ExitSecondPass(t)
    \/ RunGet(t)
    \/ RunCall(t)
    \/ RunEnd(t)
    \/ CallbackReturn(t)
    \/ CallbackRaise(t)
    \/ Return(t)

\* SpecExit: two threads call _exit_function
InitExit == Start(MaxRacing)
NextExit ==
    \/ \E t \in Threads : Shutdown(t)
    \/ \E p \in OptPrio : Register(Main, FALSE, p)
    \/ \E d \in BOOLEAN : Spawn(d)
SpecExit == InitExit /\ [][NextExit]_vars

\* SpecShutdown: one thread registers finalizers without an owner object (the
\* ones a shutdown pass can select by priority), starts children and calls
\* _exit_function
NextShutdown ==
    \/ Shutdown(Main)
    \/ \E p \in OptPrio : Register(Main, FALSE, p)
    \/ \E d \in BOOLEAN : Spawn(d)
    \/ \E c \in 1 .. MaxChildren : ChildExits(c)
    \/ ProcessGone
SpecShutdown == InitSeq /\ [][NextShutdown]_vars

\* SpecTeardown: as SpecShutdown with MaxRacing finalizers, and the globals of
\* the module may be destroyed before, between or after calls of
\* _exit_function
NextTeardown ==
    \/ Shutdown(Main)
    \/ \E p \in OptPrio : ~globalsGone /\ Register(Main, FALSE, p)
    \/ \E d \in BOOLEAN : Spawn(d)
    \/ \E c \in 1 .. MaxChildren : ChildExits(c)
    \/ ProcessGone
    \/ ModuleGone
SpecTeardown == Init /\ [][NextTeardown]_vars

\* SpecAfterFork: two threads register after-fork callbacks and run them
NextAfterFork ==
    \/ \E t \in Threads :
          \/ \E i \in Idents : RegisterAfterFork(t, i)
          \/ RunAfterForkers(t)
          \/ AfterForkCall(t)
          \/ \E out \in {"None", "exc"} : AfterForkReturn(t, out)
          \/ Return(t)
    \/ \E k \in (0 .. MaxForkers) \X Idents : ForkerCollected(k)
SpecAfterFork == Init /\ [][NextAfterFork]_vars

\* SpecTemp: two threads call get_temp_dir and _run_finalizers
NextTemp ==
    \E t \in Threads :
        \/ GetTempDir(t)
        \/ TempMake(t)
        \/ TempRegister(t)
        \/ TempStore(t)
        \/ \E m \in MinPriorities : RunFinalizers(t, m)
        \/ RunGet(t)
        \/ RunCall(t)
        \/ RunEnd(t)
        \/ CallbackReturn(t)
        \/ CallbackRaise(t)
        \/ Return(t)
SpecTemp == InitSeq /\ [][NextTemp]_vars

\* SpecBatch: one thread runs _run_finalizers while another registers, calls
\* and cancels finalizers (what a callback of the run could do as well)
Other == "t2"
NextBatch ==
    \/ \E m \in MinPriorities : RunFinalizers(Main, m)
    \/ RunGet(Main)
    \/ RunCall(Main)
    \/ RunEnd(Main)
    \/ \E o \in BOOLEAN, p \in OptPrio : Register(Other, o, p)
    \/ \E h \in AllHandles : Invoke(Other, h)
    \/ \E h \in AllHandles : Cancel(Other, h)
    \/ \E t \in Threads : CallbackReturn(t) \/ CallbackRaise(t) \/ Return(t)
SpecBatch == InitSeq /\ [][NextBatch]_vars

\* SpecTempExit: one thread calls get_temp_dir, registers finalizers, starts
\* children, runs _run_finalizers(0) and calls _exit_function
NextTempExit ==
    \/ GetTempDir(Main)
    \/ TempMake(Main)
    \/ TempRegister(Main)
    \/ TempStore(Main)
    \/ \E p \in OptPrio : Register(Main, FALSE, p)
    \/ \E d \in BOOLEAN : Spawn(d)
    \/ RunFinalizers(Main, FirstPassMin)
    \/ Shutdown(Main)
    \/ ProcessGone
SpecTempExit == InitSeq /\ [][NextTempExit]_vars

\* ------------------------------------------------- finalizer registry claims
Frames(t) == {th[t][i] : i \in DOMAIN th[t]}
InRegistry(h) == \E k \in DOMAIN registry : registry[k] = h
DoneWith(t, fn) == At(t, fn, "done")

\* C1: a callback is started at most once and a key is removed at most once,
\* whatever the interleaving of invoke, collection, cancel and batch runs; a
\* callback is only ever started by the operation that removed the key.
AtMostOnce ==
    \A h \in DOMAIN calls :
        /\ calls[h] <= 1
        /\ removals[h] <= 1
        /\ calls[h] <= removals[h]
        /\ Cardinality({t \in Threads : \E f \in Frames(t) :
                           f.fn = "call" /\ f.pc = "running" /\ f.h = h}) <= 1

\* one thread's call runs the callback while another's invoke or cancel of the
\* same entry has found it removed
AtMostOnceWitness ==
    \E t, u \in Threads, h \in Handles :
        /\ t # u
        /\ At(t, "call", "running") /\ Top(t).h = h
        /\ (DoneWith(u, "call") \/ DoneWith(u, "cancel"))
        /\ Top(u).h = h /\ Top(u).out = "None"
        /\ calls[h] = 1

\* C2: the finalizers one batch run has called so far are in strictly
\* descending (priority, sequence) order: higher priority first and, for equal
\* priorities, the later registered first; the keys it still has to visit come
\* after them in that order.
Before(a, b) == \/ a[1].v > b[1].v
                \/ a[1].v = b[1].v /\ a[2] > b[2]

PriorityOrder ==
    \A t \in Threads : \A f \in Frames(t) :
        f.fn = "runfin" /\ f.pc # "done" =>
            LET all == f.inv \o f.keys IN
            \A i, j \in DOMAIN all : i < j => Before(all[i], all[j])

\* a run has called two finalizers of equal priority, the later registered first
PriorityOrderWitness ==
    \E t \in Threads : \E f \in Frames(t) :
        /\ f.fn = "runfin"
        /\ Len(f.inv) = 2
        /\ f.inv[1][1] = f.inv[2][1]
        /\ f.inv[1][2] > f.inv[2][2]

\* C6: the step that ends a full run leaves the registry empty, and an entry
\* that clear() removed has never had and never gets its callback started.
FullRunEnds(t) == /\ At(t, "runfin", "loop")
                  /\ Top(t).keys = <<>>
                  /\ Top(t).minp.none
                  /\ th'[t] # th[t]

DroppedNeverCalled == \A h \in dropped : calls[h] = 0 /\ ~InRegistry(h)

FullRunClear ==
    /\ [][\A t \in Threads : FullRunEnds(t) => registry' = << >>]_vars
    /\ []DroppedNeverCalled

\* an entry without priority whose object is alive was dropped by a full run,
\* and a later call of it found nothing to do
FullRunClearWitness ==
    \E h \in dropped, t \in Threads :
        /\ fin[h].key # KeyNone
        /\ fin[h].key[1].none
        /\ fin[h].weakref = "live"
        /\ DoneWith(t, "call") /\ Top(t).h = h /\ Top(t).out = "None"
        /\ calls[h] = 0

\* C7: a batch run never ends with an exception, and when it ends it has
\* visited every key it selected; while it runs, each selected key is among the
\* called ones, the ones found removed, or the ones still to visit.
BatchContainment ==
    \A t \in Threads :
        /\ DoneWith(t, "runfin") => Top(t).out = "None" /\ Top(t).keys = <<>>
        /\ \A f \in Frames(t) :
              f.fn = "runfin" /\ f.pc # "done" =>
                  f.caught <= Len(f.inv)

\* a run caught the exception of the first finalizer it called and has gone on
\* to call a second one
BatchContainmentWitness ==
    \E t \in Threads : \E f \in Frames(t) :
        /\ f.fn = "runfin"
        /\ f.pc = "calling"
        /\ f.caught = 1
        /\ Len(f.inv) = 2

\* C8: every entry in the registry is bound to an object or has a priority, and
\* a registration that raised ValueError changed neither registry nor counter.
RegistersNothing(t) == /\ th'[t] # th[t]
                       /\ th'[t] # <<>>
                       /\ th'[t][1].fn = "init"
                       /\ th'[t][1].out = "ValueError"

EntriesValid ==
    \A k \in DOMAIN registry :
        fin[registry[k]].weakref # "none" \/ ~k[1].none

RegistrationValid ==
    /\ []EntriesValid
    /\ [][\A t \in Threads : RegistersNothing(t) =>
              registry' = registry /\ counter' = counter /\ fin' = fin]_vars

\* a registration has raised ValueError while the registry holds an entry
RegistrationValidWitness ==
    \E t \in Threads :
        /\ DoneWith(t, "init") /\ Top(t).out = "ValueError"
        /\ DOMAIN registry # {}

\* C5: a callback is only ever started in the process that registered its
\* entry; a call of an entry of another process returns None and leaves the
\* entry out of the registry.
CrossProcessNoOp ==
    /\ ~foreignCall
    /\ \A t \in Threads :
          /\ \A f \in Frames(t) :
                f.fn = "call" /\ f.pc = "running" => fin[f.h].pid = pid
          /\ DoneWith(t, "call") /\ fin[Top(t).h].pid # pid =>
                Top(t).out = "None" /\ ~InRegistry(Top(t).h)

\* in the child, a call of an entry the parent registered has removed it from
\* the registry, has not started its callback and has returned None
CrossProcessNoOpWitness ==
    \E t \in Threads :
        /\ pid = ChildPid
        /\ DoneWith(t, "call")
        /\ Top(t).out = "None"
        /\ fin[Top(t).h].pid = ParentPid
        /\ removals[Top(t).h] = 1
        /\ Top(t).h \notin dropped
        /\ calls[Top(t).h] = 0

\* ------------------------------------------------------ exit function claims
\* C3: however often _exit_function is called, also by two threads at the
\* same time, its body (first pass, child teardown, second pass) is entered at
\* most once.
ExitOnceAlways == exitRuns <= 1

\* two callers have both read the flag as not set and both entered the body
ExitTwice ==
    /\ exitRuns = 2
    /\ exitOverlap
    /\ \A t \in Threads : th[t] # <<>> /\ th[t][1].fn = "exit"

\* what the flag does give: once the body has been entered the flag stays set,
\* and the body is entered twice only if a caller read the flag while another
\* caller was between its read (line 396) and its store (line 397)
ExitOnce ==
    /\ exitRuns >= 1 => exiting = "True"
    /\ exitRuns <= 1 \/ exitOverlap

\* a second caller has returned, having found the flag set, while the first is
\* in its second pass
ExitOnceWitness ==
    \E t, u \in Threads :
        /\ t # u
        /\ th[t] # <<>> /\ th[t][1].fn = "exit" /\ th[t][1].pc = "pass2"
        /\ DoneWith(u, "exit")
        /\ exitRuns = 1
        /\ ~exitOverlap

\* C4: in one exit function, a finalizer called by the first pass has priority
\* >= 0 and is called before any terminate or join; a finalizer of negative
\* priority is called by the second pass, after every terminate and join.
IsFin(e) == e[1] = "fin"

ShutdownPhases ==
    \A t \in Threads : \A f \in Frames(t) :
        f.fn = "exit" =>
            \A i \in DOMAIN f.evs :
                LET e == f.evs[i] IN
                /\ IsFin(e) /\ e[3] = 1 =>
                      /\ e[2] >= 0
                      /\ \A j \in 1 .. i : IsFin(f.evs[j])
                /\ IsFin(e) /\ e[2] < 0 =>
                      /\ e[3] = 2
                      /\ \A j \in i .. Len(f.evs) : IsFin(f.evs[j])
                /\ e[1] = "join" =>
                      \A j \in i .. Len(f.evs) : f.evs[j][1] # "term"

\* an exit function has called a finalizer of priority >= 0, then terminated a
\* daemon child, joined it, and then called a finalizer of negative priority
ShutdownPhasesWitness ==
    \E t \in Threads : \E f \in Frames(t) :
        /\ f.fn = "exit"
        /\ Len(f.evs) = 4
        /\ IsFin(f.evs[1]) /\ f.evs[1][2] >= 0
        /\ f.evs[2][1] = "term"
        /\ f.evs[3][1] = "join"
        /\ IsFin(f.evs[4]) /\ f.evs[4][2] < 0

\* ------------------------------------------------------- after-fork claims
\* C9: a run of the after-fork callbacks calls each entry it listed (the
\* entries whose object was alive) once, in ascending order of registration,
\* and ends normally with none left, whether or not callbacks raised.
AfterForkOrder ==
    \A t \in Threads : \A f \in Frames(t) :
        f.fn = "afterfork" =>
            LET all == f.inv \o f.keys IN
            /\ {all[i] : i \in DOMAIN all} = f.evs
            /\ \A i, j \in DOMAIN all : i < j => all[i][1] < all[j][1]
            /\ f.pc = "done" => f.out = "None" /\ f.keys = <<>>

\* a run has ended after two callbacks, one of which raised; the object
\* registered first has the greater id
AfterForkOrderWitness ==
    \E t \in Threads :
        /\ DoneWith(t, "afterfork")
        /\ Len(Top(t).inv) = 2
        /\ Top(t).inv[1][2] > Top(t).inv[2][2]
        /\ Top(t).caught = 1
        /\ afterfork = Top(t).evs

\* ------------------------------------------------------- temp dir claims
\* C10: in any sequence or interleaving of calls of get_temp_dir, as long as
\* the directory has not been removed, at most one directory is made and all
\* calls return the same path.
TempDirOnceAlways ==
    dirsRemoved = {} =>
        /\ dirsMade <= 1
        /\ \A t, u \in Threads :
              DoneWith(t, "gettemp") /\ DoneWith(u, "gettemp")
                  => Top(t).h = Top(u).h

\* two calls have made a directory each and returned different paths
TempDirTwice ==
    \E t, u \in Threads :
        /\ DoneWith(t, "gettemp") /\ DoneWith(u, "gettemp")
        /\ Top(t).h # Top(u).h
        /\ dirsMade = 2
        /\ dirsRemoved = {}

\* what the memo does give: as long as no directory has been removed and no
\* call read the memo while another was between its read (line 209) and its
\* store (line 219), at most one directory was made and a call that returned
\* has returned the memoized path
TempDirReuse ==
    ~tempOverlap /\ dirsRemoved = {} =>
        /\ dirsMade <= 1
        /\ \A t \in Threads :
              DoneWith(t, "gettemp") => Top(t).h = tempdir /\ tempdir # 0

\* two calls have returned the same path, one directory made
TempDirReuseWitness ==
    \E t, u \in Threads :
        /\ t # u
        /\ DoneWith(t, "gettemp") /\ DoneWith(u, "gettemp")
        /\ Top(t).h = Top(u).h
        /\ dirsMade = 1
        /\ ~tempOverlap
        /\ dirsRemoved = {}

\* C11: the removal finalizer of get_temp_dir is never called by
\* _run_finalizers(0) nor by the first pass of the exit function; the exit
\* function calls it in its second pass, after every terminate and join and
\* after every finalizer of priority >= 0 it calls, once per directory; when
\* the removal returns and current_process() is there, the memo is None.
IsRemoval(e) == IsFin(e) /\ e[4] = "rmtemp"

RemovalReturns(t) == /\ At(t, "call", "running")
                     /\ fin[Top(t).h].callback = "rmtemp"
                     /\ th'[t] # th[t]
                     /\ fin'[Top(t).h].callback = "none"

SecondPassOver(t) == /\ Len(th[t]) = 2
                     /\ th[t][1].fn = "exit" /\ th[t][1].pc = "pass2"
                     /\ th[t][2].pc = "loop" /\ th[t][2].keys = <<>>

RemovalNotBelowZero ==
    \A t \in Threads : \A i \in DOMAIN th[t] :
        /\ th[t][i].fn = "call"
        /\ th[t][i].pc = "running"
        /\ fin[th[t][i].h].callback = "rmtemp"
        => /\ i > 1
           /\ th[t][i - 1].fn = "runfin"
           /\ th[t][i - 1].minp.none

RemovalLastInExit ==
    \A t \in Threads : \A f \in Frames(t) :
        f.fn = "exit" =>
            /\ \A i \in DOMAIN f.evs :
                  IsRemoval(f.evs[i]) =>
                      /\ f.evs[i][3] = 2
                      /\ \A j \in i .. Len(f.evs) :
                            IsFin(f.evs[j]) /\ f.evs[j][2] < 0
            /\ \A i, j \in DOMAIN f.evs :
                  /\ IsRemoval(f.evs[i]) /\ IsRemoval(f.evs[j])
                  /\ f.evs[i][5] = f.evs[j][5]
                  => i = j

RemovalOncePerDir ==
    \A t \in Threads :
        SecondPassOver(t) =>
            \A d \in 1 .. dirsMade :
                \E i \in DOMAIN th[t][1].evs :
                    IsRemoval(th[t][1].evs[i]) /\ th[t][1].evs[i][5] = d

Cancels(t, h) == /\ Idle(t)
                 /\ th'[t] # <<>>
                 /\ th'[t][1].fn = "cancel"
                 /\ th'[t][1].h = h

CancelIdempotent ==
    /\ [][\A t \in Threads, h \in AllHandles :
            Cancels(t, h) =>
                /\ calls' = calls
                /\ th'[t][1].pc = "done" /\ th'[t][1].out = "None"
                /\ ~InRegistry(h)'
                /\ fin'[h].key = KeyNone \/ fin'[h] = fin[h]
                /\ ~InRegistry(h) => registry' = registry /\ fin' = fin]_vars
    /\ [][\A h \in Handles :
            ~InRegistry(h) => calls'[h] = calls[h]]_vars

\* an entry was cancelled while in the registry; an explicit call of it made
\* afterwards has ended without starting the callback
CancelIdempotentWitness ==
    \E t, u \in Threads, h \in Handles :
        /\ DoneWith(t, "cancel") /\ Top(t).h = h
        /\ DoneWith(u, "call") /\ Top(u).h = h /\ Top(u).out = "None"
        /\ removals[h] = 1
        /\ calls[h] = 0
        /\ h \notin dropped
        /\ fin[h].key = KeyNone

\* C13: when the callback of a Finalize object called directly (not by a
\* batch run) raises, the call ends with that exception and the registry is as
\* it was, without the entry; an entry whose callback has been started is never
\* in the registry again, and its callback is not started again.
DirectRaise(t) == /\ Len(th[t]) = 1
                  /\ At(t, "call", "running")
                  /\ th'[t] # th[t]
                  /\ fin' = fin

FailurePropagates ==
    /\ [][\A t \in Threads :
            DirectRaise(t) =>
                /\ th'[t] = <<Done(th[t][1], "exc")>>
                /\ registry' = registry
                /\ calls' = calls]_vars
    /\ [](\A h \in Handles : calls[h] >= 1 => calls[h] = 1 /\ ~InRegistry(h))

\* a direct call has ended with the exception of its callback; a call of the
\* same object by the other thread has found the key gone and returned None
FailurePropagatesWitness ==
    \E t, u \in Threads, h \in Handles :
        /\ DoneWith(t, "call") /\ Top(t).h = h /\ Top(t).out = "exc"
        /\ DoneWith(u, "call") /\ Top(u).h = h /\ Top(u).out = "None"
        /\ calls[h] = 1
        /\ ~InRegistry(h)

\* C14: once a call of a Finalize object has removed its key and is over, its
\* weakref, callback, args and key are all None, whether the callback
\* returned, raised or was skipped in another process.
IsCleared(f) == /\ f.key = KeyNone
                /\ f.weakref = "none"
                /\ f.callback = "none"
                /\ f.args = 0

Running(h) == \E t \in Threads : \E f \in Frames(t) :
                 f.fn = "call" /\ f.pc = "running" /\ f.h = h

ClearedAlways ==
    \A h \in Handles :
        removals[h] = 1 /\ h \notin dropped /\ ~Running(h) => IsCleared(fin[h])

\* C14, as the code has it: the fields are all None when the callback returned
\* and when it was skipped in another process; when the callback raised the
\* Finalize object is left as it was, key and callback included, its key
\* staying out of the registry.
CallbackEnds(t) == /\ At(t, "call", "running")
                   /\ th'[t] # th[t]

Raised(t) ==
    LET n == Len(th[t]) IN
    IF n = 1 THEN th'[t][1].out = "exc"
    ELSE th'[t][n - 1].caught > th[t][n - 1].caught

SkippedInCall(t, h) == /\ h \in Handles
                       /\ removals'[h] # removals[h]
                       /\ calls' = calls
                       /\ th'[t] # th[t]
                       /\ h \notin dropped'
                       /\ ~(Idle(t) /\ th'[t][1].fn = "cancel")

ClearedUnlessRaised ==
    /\ [][\A t \in Threads :
            CallbackEnds(t) =>
                IF Raised(t)
                THEN /\ fin' = fin
                     /\ ~IsCleared(fin[Top(t).h])
                     /\ ~InRegistry(Top(t).h)'
                ELSE IsCleared(fin'[Top(t).h])]_vars
    /\ [][\A t \in Threads, h \in AllHandles :
            SkippedInCall(t, h) => IsCleared(fin'[h]) /\ fin[h].pid # pid]_vars

\* a direct call has ended with its callback's exception: the key is out of
\* the registry and the Finalize object still has key and callback
ClearedUnlessRaisedWitness ==
    \E t \in Threads, h \in Handles :
        /\ DoneWith(t, "call") /\ Top(t).h = h /\ Top(t).out = "exc"
        /\ ~InRegistry(h)
        /\ fin[h].key # KeyNone
        /\ fin[h].callback = "user"

\* C15: a run _run_finalizers(m) with m given calls only finalizers of a
\* priority that is present and >= m; no step of the run removes, replaces or
\* calls an entry whose priority is absent or < m.
BelowMin(k, m) == k[1].none \/ k[1].v < m.v

SelectiveRunFrame ==
    /\ [](\A t \in Threads : \A f \in Frames(t) :
            f.fn = "runfin" /\ f.pc # "done" /\ ~f.minp.none =>
                \A i \in DOMAIN f.inv : ~BelowMin(f.inv[i], f.minp))
    /\ [][\A t \in Threads : \A i \in DOMAIN th[t] :
            /\ th[t][i].fn = "runfin"
            /\ th[t][i].pc # "done"
            /\ ~th[t][i].minp.none
            /\ th'[t] # th[t]
            => \A k \in DOMAIN registry :
                  BelowMin(k, th[t][i].minp) =>
                      /\ k \in DOMAIN registry'
                      /\ registry'[k] = registry[k]
                      /\ fin'[registry[k]] = fin[registry[k]]
                      /\ calls'[registry[k]] = calls[registry[k]]]_vars

\* a run with minpriority 0 has called a finalizer of priority 0 and has no key
\* left to visit; an entry of priority -100 is in the registry, never called
SelectiveRunFrameWitness ==
    \E t \in Threads :
        /\ At(t, "runfin", "loop")
        /\ Top(t).keys = <<>>
        /\ Top(t).minp = Some(0)
        /\ Len(Top(t).inv) = 1
        /\ \E k \in DOMAIN registry :
              /\ k[1] = Some(TempDirPriority)
              /\ calls[registry[k]] = 0
              /\ fin[registry[k]].key = k

\* C16: when the object of a Finalize object h is collected in the process
\* that registered h and h is in the registry, the callback of h is started,
\* for the first and only time, with the args h holds, and h is out of the
\* registry; when h is not in the registry (called before with a raising
\* callback, or dropped by a full run) the collection starts nothing and
\* changes neither registry nor call counts.
Collected(t, h) == /\ Idle(t)
                   /\ h \in Handles
                   /\ fin[h].weakref = "live"
                   /\ fin'[h].weakref = "dead"
                   /\ th'[t] # <<>>
                   /\ th'[t][1].fn = "call"
                   /\ th'[t][1].h = h

AutomaticTrigger ==
    /\ [][\A t \in Threads, h \in AllHandles :
            Collected(t, h) =>
                IF InRegistry(h)
                THEN /\ fin[h].pid = pid
                     /\ calls[h] = 0 /\ calls'[h] = 1
                     /\ ~InRegistry(h)'
                     /\ th'[t][1].pc = "running"
                     /\ fin'[h].args = fin[h].args
                     /\ fin'[h].callback = fin[h].callback
                ELSE /\ calls' = calls
                     /\ registry' = registry
                     /\ th'[t][1].pc = "done" /\ th'[t][1].out = "None"]_vars
    /\ [](\A h \in Handles : fin[h].weakref = "dead" => calls[h] <= 1)

\* the object of one entry was collected and its callback ran (and raised);
\* the object of another, dropped by a full run, was collected and nothing ran
AutomaticTriggerWitness ==
    \E g, h \in Handles :
        /\ fin[g].weakref = "dead" /\ calls[g] = 1 /\ g \notin dropped
        /\ fin[h].weakref = "dead" /\ calls[h] = 0 /\ h \in dropped
        /\ DoneWith(Main, "call") /\ Top(Main).h = h /\ Top(Main).out = "None"

\* C17: when a batch run comes to a key of its list that is no longer in the
\* registry, it starts no callback, changes nothing and goes on with the next
\* key; the same when the key is removed between the get and the call.  The
\* run does not end with an exception.
Visits(t) == /\ th[t] # <<>>
             /\ Top(t).fn = "runfin"
             /\ th'[t] # th[t]

GoesOn(t, f) == /\ Len(th'[t]) = Len(th[t])
                /\ th'[t][Len(th[t])].fn = "runfin"
                /\ th'[t][Len(th[t])].pc = "loop"
                /\ th'[t][Len(th[t])].keys = f.keys
                /\ th'[t][Len(th[t])].caught = Top(t).caught

BatchRefetch ==
    /\ [][\A t \in Threads :
            /\ Visits(t)
            /\ Top(t).pc = "loop"
            /\ Top(t).keys # <<>>
            /\ Head(Top(t).keys) \notin DOMAIN registry
            => /\ calls' = calls
               /\ registry' = registry
               /\ GoesOn(t, [keys |-> Tail(Top(t).keys)])]_vars
    /\ [][\A t \in Threads :
            /\ Visits(t)
            /\ Top(t).pc = "got"
            /\ ~InRegistry(Top(t).h)
            => /\ calls' = calls
               /\ registry' = registry
               /\ GoesOn(t, [keys |-> Top(t).keys])]_vars
    /\ [](\A t \in Threads :
            DoneWith(t, "runfin") => Top(t).out = "None" /\ Top(t).keys = <<>>)

\* a run listed two keys; the first was cancelled before its turn and skipped,
\* and the run is now in the callback of the second
BatchRefetchWitness ==
    \E g, h \in Handles :
        /\ g # h
        /\ Len(th[Main]) = 2
        /\ th[Main][1].fn = "runfin"
        /\ th[Main][1].skip = 1
        /\ Len(th[Main][1].inv) = 1
        /\ At(Main, "call", "running") /\ Top(Main).h = h
        /\ calls[h] = 1
        /\ calls[g] = 0 /\ removals[g] = 1 /\ fin[g].key = KeyNone

\* C18: when current_process() is None, the exit function terminates and
\* joins no child and goes on to its second pass; it never ends with an
\* exception; its second pass is a full run, which ends with the registry
\* empty (if the registry is still there).  When current_process() is there,
\* once the first loop is over no daemon child that was there when the
\* children were listed is active, each of them that the exit function joins
\* it has terminated, and every terminate comes before every join.
InExit(t) == th[t] # <<>> /\ th[t][1].fn = "exit" /\ th'[t] # th[t]

ChildEvents(evs) == SelectSeq(evs, LAMBDA e : ~IsFin(e))

ExitingFlag ==
    /\ [](/\ ~IsExiting(exiting) <=> exiting = "False"
          /\ exitRuns = 0 /\ ~globalsGone => ~IsExiting(exiting)
          /\ exitRuns >= 1 => IsExiting(exiting)
          /\ globalsGone => IsExiting(exiting))
    /\ [][IsExiting(exiting) => IsExiting(exiting')]_vars

\* an exit function has run to its end and the globals of the module were
\* destroyed afterwards: _exiting is None and is_exiting() is true
ExitingFlagWitness ==
    /\ exitRuns = 1
    /\ \A t \in Threads : Idle(t)
    /\ globalsGone
    /\ exiting = "None"
    /\ IsExiting(exiting)

\* C20: a batch run visits only keys that were in the registry when it
\* listed them: its list never grows and holds no key registered later.  An
\* entry registered during a full run is therefore not called by the run; the
\* clear() that ends the run removes it, and an entry so removed has not been
\* called and is never called, whatever its priority.
RunList(f) == {f.inv[i] : i \in DOMAIN f.inv} \cup {f.keys[i] : i \in DOMAIN f.keys}

IsRun(f) == f.fn = "runfin" /\ f.pc # "done"

LateEntriesLost ==
    /\ [](\A t \in Threads : \A f \in Frames(t) :
            IsRun(f) => \A k \in RunList(f) : k[2] < counter)
    /\ [][\A t \in Threads : \A i \in DOMAIN th[t] :
            IsRun(th[t][i]) /\ i \in DOMAIN th'[t] /\ IsRun(th'[t][i]) =>
                /\ RunList(th'[t][i]) \subseteq RunList(th[t][i])
                /\ \A k \in DOMAIN registry' \ DOMAIN registry :
                      k \notin RunList(th'[t][i])]_vars
    /\ [][\A t \in Threads :
            FullRunEnds(t) => /\ registry' = << >>
                              /\ \A k \in DOMAIN registry :
                                    registry[k] \in dropped']_vars
    /\ [](\A h \in dropped : calls[h] = 0 /\ ~InRegistry(h))

\* a full run has called one finalizer and ended; an entry with a priority,
\* registered by the other thread during the run, was removed by the clear
\* and has never been called
LateEntriesLostWitness ==
    \E g, h \in Handles :
        /\ DoneWith(Main, "runfin")
        /\ calls[g] = 1
        /\ h \in dropped
        /\ ~fin[h].key[1].none
        /\ calls[h] = 0
        /\ ~InRegistry(h)

====
